---- MODULE Spec2Model ----
(***************************************************************************)
(* Model of Graficar.py: the route loader (load_routes_from_csv), the      *)
(* colour allocator (generate_colors), the renderer (plot_routes) and the  *)
(* driver (main).                                                          *)
(*                                                                         *)
(* Text is modelled as sequences of one-character strings, so that strip,  *)
(* startswith, split, float() and int() are computed on the characters.    *)
(* Floats are fixed-point numbers in tenths; axis limits are in            *)
(* thousandths (tenths divided by MarginDiv).                              *)
(***************************************************************************)
EXTENDS Integers, Sequences, FiniteSets, TLC

VARIABLES
    exists,         \* the input file can be found on disk
    file,           \* the lines of the input file, each a sequence of characters
    pos,            \* index of the next line the loader's for-loop reads
    routes,         \* load_routes_from_csv: routes
    current_route,  \* load_routes_from_csv: current_route
    result,         \* value returned by load_routes_from_csv (main: routes)
    ret,            \* line of the return statement load_routes_from_csv left by, 0 before
    pc,             \* position of the program
    plt_obj,        \* main: value returned by plot_routes (TRUE = plt, FALSE = None)
    num_routes,     \* generate_colors: argument
    colors,         \* plot_routes: colors / generate_colors: returned list
    i,              \* plot_routes: index of the route of the for-loop (1-based)
    all_x,          \* plot_routes: all_x
    all_y,          \* plot_routes: all_y
    calls,          \* the matplotlib calls made so far, in order
    xlim,           \* x-axis limits: <<>> = default, else <<lo, hi>>
    ylim            \* y-axis limits: <<>> = default, else <<lo, hi>>

vars == <<exists, file, pos, routes, current_route, result, ret, pc, plt_obj,
          num_routes, colors, i, all_x, all_y, calls, xlim, ylim>>

(***************************************************************************)
(* Bounds of the model.                                                    *)
(***************************************************************************)
MaxLines == 4       \* longest generated input file, in lines
MaxColors == 27     \* largest argument of generate_colors

(***************************************************************************)
(* Characters and strings.                                                 *)
(***************************************************************************)
Digits == <<"0", "1", "2", "3", "4", "5", "6", "7", "8", "9">>
HexDigits == <<"0", "1", "2", "3", "4", "5", "6", "7", "8", "9",
               "a", "b", "c", "d", "e", "f">>

Range(s) == {s[k] : k \in DOMAIN s}

IsSpace(c) == c \in {" ", "\n", "\t", "\r"}

IsDigit(c) == c \in Range(Digits)

DigitVal(c) == (CHOOSE k \in DOMAIN Digits : Digits[k] = c) - 1

RECURSIVE LStrip(_)
LStrip(s) == IF s # <<>> /\ IsSpace(Head(s)) THEN LStrip(Tail(s)) ELSE s

RECURSIVE RStrip(_)
RStrip(s) ==
    IF s # <<>> /\ IsSpace(s[Len(s)]) THEN RStrip(SubSeq(s, 1, Len(s) - 1)) ELSE s

\* str.strip()
Strip(s) == RStrip(LStrip(s))

\* str.startswith(p)
StartsWith(s, p) == Len(s) >= Len(p) /\ SubSeq(s, 1, Len(p)) = p

\* c in s
Contains(s, c) == \E k \in DOMAIN s : s[k] = c

\* str.split(c): the fields between the occurrences of c, empty fields kept
RECURSIVE Split(_, _)
Split(s, c) ==
    IF ~Contains(s, c) THEN <<s>>
    ELSE LET k == CHOOSE j \in DOMAIN s : s[j] = c /\ \A m \in 1..(j - 1) : s[m] # c
         IN  <<SubSeq(s, 1, k - 1)>> \o Split(SubSeq(s, k + 1, Len(s)), c)

\* an optional sign taken off the front of a numeric literal
Unsigned(s) == IF s # <<>> /\ Head(s) \in {"+", "-"} THEN Tail(s) ELSE s

Sign(s) == IF s # <<>> /\ Head(s) = "-" THEN -1 ELSE 1

RECURSIVE DigitsVal(_)
DigitsVal(s) ==
    IF s = <<>> THEN 0 ELSE 10 * DigitsVal(SubSeq(s, 1, Len(s) - 1)) + DigitVal(s[Len(s)])

\* int(s) does not raise ValueError: blanks around, a sign, one digit or more
IsInt(s) ==
    LET u == Unsigned(Strip(s))
    IN  u # <<>> /\ \A k \in DOMAIN u : IsDigit(u[k])

\* int(s)
IntVal(s) == Sign(Strip(s)) * DigitsVal(Unsigned(Strip(s)))

\* float(s) does not raise ValueError: blanks around, a sign, digits with at
\* most one decimal point and one digit or more (exponents, inf and nan are
\* not written by the lines of this model)
IsFloat(s) ==
    LET u == Unsigned(Strip(s))
    IN  /\ \E k \in DOMAIN u : IsDigit(u[k])
        /\ \A k \in DOMAIN u : IsDigit(u[k]) \/ u[k] = "."
        /\ Cardinality({k \in DOMAIN u : u[k] = "."}) <= 1

\* float(s), in tenths (the lines of this model carry at most one fractional
\* digit)
FloatVal(s) ==
    LET t == Strip(s)
        u == Unsigned(t)
        parts == Split(u, ".")
        frac == IF Len(parts) > 1 /\ parts[2] # <<>> THEN DigitVal(parts[2][1]) ELSE 0
    IN  Sign(t) * (10 * DigitsVal(parts[1]) + frac)

RECURSIVE StrNat(_)
StrNat(n) == IF n < 10 THEN <<Digits[n + 1]>> ELSE Append(StrNat(n \div 10), Digits[(n % 10) + 1])

\* str(n) of an int
Str(n) == IF n < 0 THEN <<"-">> \o StrNat(-n) ELSE StrNat(n)

(***************************************************************************)
(* load_routes_from_csv.                                                   *)
(***************************************************************************)
MARKER == <<"#", " ", "R", "u", "t", "a", " ", "v", "e", "h", "i", "c", "u", "l", "o">>

UNKNOWN_ID == -1

\* lines 22-24, without the test of line 22
OnMarkerAlwaysAppend(r, c) == [routes |-> Append(r, c), current |-> <<>>]

\* lines 20-25: a marker line closes the route in progress, if it has waypoints
OnMarker(r, c) ==
    [routes |-> IF c # <<>> THEN Append(r, c) ELSE r, current |-> <<>>]

\* lines 30-38 with 0 in place of the unknown id
ParseRecordZeroId(parts) ==
    IF Len(parts) >= 3
    THEN IF IsFloat(parts[1]) /\ IsFloat(parts[2]) /\ IsInt(parts[3])
         THEN <<<<FloatVal(parts[1]), FloatVal(parts[2]), IntVal(parts[3])>>>>
         ELSE <<>>
    ELSE IF IsFloat(parts[1]) /\ IsFloat(parts[2])
         THEN <<<<FloatVal(parts[1]), FloatVal(parts[2]), 0>>>>
         ELSE <<>>

\* lines 30-38: the waypoints a split record appends, <<>> when a conversion
\* raises ValueError (line 37) and <<waypoint>> otherwise
ParseRecord(parts) ==
    IF Len(parts) >= 3
    THEN IF IsFloat(parts[1]) /\ IsFloat(parts[2]) /\ IsInt(parts[3])
         THEN <<<<FloatVal(parts[1]), FloatVal(parts[2]), IntVal(parts[3])>>>>
         ELSE <<>>
    ELSE IF IsFloat(parts[1]) /\ IsFloat(parts[2])
         THEN <<<<FloatVal(parts[1]), FloatVal(parts[2]), UNKNOWN_ID>>>>
         ELSE <<>>

\* lines 17-38 with a line that holds no comma closing the route in progress
LoopBodySplitOnSkip(r, c, rawline) ==
    LET line == Strip(rawline)
    IN  IF StartsWith(line, MARKER) THEN OnMarker(r, c)
        ELSE IF Contains(line, ",")
             THEN [routes |-> r, current |-> c \o ParseRecord(Split(line, ","))]
             ELSE OnMarker(r, c)

\* lines 17-38 with a failed conversion dropping the route in progress
LoopBodyDropOnError(r, c, rawline) ==
    LET line == Strip(rawline)
    IN  IF StartsWith(line, MARKER) THEN OnMarker(r, c)
        ELSE IF Contains(line, ",")
             THEN [routes |-> r,
                   current |-> IF ParseRecord(Split(line, ",")) = <<>> THEN <<>>
                               ELSE c \o ParseRecord(Split(line, ","))]
             ELSE [routes |-> r, current |-> c]

\* lines 17-38: one iteration of the loop over the lines of the file
LoopBody(r, c, rawline) ==
    LET line == Strip(rawline)
    IN  IF StartsWith(line, MARKER) THEN OnMarker(r, c)
        ELSE IF Contains(line, ",")
             THEN [routes |-> r, current |-> c \o ParseRecord(Split(line, ","))]
             ELSE [routes |-> r, current |-> c]

\* lines 44-47 returning the routes collected so far
OnExceptionPartial(r) == r

\* lines 44-47: every exception of the try block returns the empty list
OnException(r) == <<>>

(***************************************************************************)
(* generate_colors.                                                        *)
(***************************************************************************)
base_colors ==
  <<<<"#", "F", "F", "0", "0", "0", "0">>,
    <<"#", "0", "0", "F", "F", "0", "0">>,
    <<"#", "0", "0", "0", "0", "F", "F">>,
    <<"#", "F", "F", "F", "F", "0", "0">>,
    <<"#", "F", "F", "0", "0", "F", "F">>,
    <<"#", "0", "0", "F", "F", "F", "F">>,
    <<"#", "F", "F", "A", "5", "0", "0">>,
    <<"#", "8", "0", "0", "0", "8", "0">>,
    <<"#", "0", "0", "8", "0", "0", "0">>,
    <<"#", "F", "F", "C", "0", "C", "B">>,
    <<"#", "A", "5", "2", "A", "2", "A">>,
    <<"#", "8", "0", "8", "0", "8", "0">>,
    <<"#", "0", "0", "0", "0", "8", "0">>,
    <<"#", "0", "0", "8", "0", "8", "0">>,
    <<"#", "8", "0", "0", "0", "0", "0">>,
    <<"#", "8", "0", "8", "0", "0", "0">>,
    <<"#", "F", "F", "6", "3", "4", "7">>,
    <<"#", "4", "6", "8", "2", "B", "4">>,
    <<"#", "9", "A", "C", "D", "3", "2">>,
    <<"#", "F", "F", "1", "4", "9", "3">>,
    <<"#", "D", "C", "1", "4", "3", "C">>,
    <<"#", "0", "0", "C", "E", "D", "1">>,
    <<"#", "F", "F", "8", "C", "0", "0">>,
    <<"#", "9", "9", "3", "2", "C", "C">>>>

\* the values random.randint(0, 0xFFFFFF) is drawn from in this model: both
\* ends of the range, and values of two, five and six hexadecimal digits
RandVals == {0, 255, 703710, 16777215}

Min(a, b) == IF a < b THEN a ELSE b

RECURSIVE HexNat(_)
HexNat(n) ==
    IF n < 16 THEN <<HexDigits[n + 1]>>
    ELSE Append(HexNat(n \div 16), HexDigits[(n % 16) + 1])

RECURSIVE ZeroPad(_, _)
ZeroPad(s, width) == IF Len(s) >= width THEN s ELSE ZeroPad(<<"0">> \o s, width)

\* "#{:x}".format(v): line 72 without the zero padding
FormatColorNoPad(v) == <<"#">> \o HexNat(v)

\* line 72: "#{:06x}".format(v)
FormatColor(v) == <<"#">> \o ZeroPad(HexNat(v), 6)

\* lines 51-75; rnd[k] is the value random.randint returns in the k-th
\* iteration of the second loop
generate_colors(n, rnd) ==
    [k \in 1..Min(n, Len(base_colors)) |-> base_colors[k]]
      \o [k \in 1..(n - Len(base_colors)) |-> FormatColor(rnd[k])]

\* the sequences of values random.randint can return during generate_colors(n)
RandSeqs(n) == [1..(n - Len(base_colors)) -> RandVals]

(***************************************************************************)
(* plot_routes: the matplotlib calls, as records.                          *)
(*   op    the call: "figure", "plot" (the polyline of a route), "annotate",*)
(*         "start" (square marker), "depot" (diamond marker), "xlabel",    *)
(*         "ylabel", "title", "grid", "legend", "xlim", "ylim",            *)
(*         "tight_layout", "savefig", "close"                              *)
(*   route the index of the route the call belongs to, 0 if none           *)
(*   pts   the points the call draws, each <<x, y>>                        *)
(*   text  the text the call draws                                         *)
(***************************************************************************)
Call(op, route, pts, text) == [op |-> op, route |-> route, pts |-> pts, text |-> text]

XY(point) == <<point[1], point[2]>>

\* line 101: point[2] if len(point) > 2 else -1
IdOf(point) == IF Len(point) > 2 THEN point[3] ELSE -1

\* line 112 with 0 taken for the unknown id
IsLabelledNonZero(point) == IdOf(point) # 0 /\ IdOf(point) # -1

\* line 112: node_id != -1
IsLabelled(point) == IdOf(point) # -1

\* lines 111-118: one annotation per waypoint whose id is not -1
Annotations(r, route) ==
    LET labelled == SelectSeq(route, IsLabelled)
    IN  [k \in 1..Len(labelled) |-> Call("annotate", r, <<XY(labelled[k])>>, Str(IdOf(labelled[k])))]

\* lines 95-123: the calls one iteration of the loop over the routes makes
RouteCalls(r, route) ==
    IF Len(route) < 2 THEN <<>>
    ELSE <<Call("plot", r, [k \in 1..Len(route) |-> XY(route[k])], <<>>)>>
           \o Annotations(r, route)
           \o (IF Len(route) > 0 THEN <<Call("start", r, <<XY(route[1])>>, <<>>)>> ELSE <<>>)

\* lines 99-104: the coordinates one iteration adds to all_x (k = 1) or all_y (k = 2)
RouteCoords(route, k) ==
    IF Len(route) < 2 THEN <<>> ELSE [j \in 1..Len(route) |-> route[j][k]]

SeqMin(s) == CHOOSE v \in Range(s) : \A w \in Range(s) : v <= w

SeqMax(s) == CHOOSE v \in Range(s) : \A w \in Range(s) : v >= w

\* 1 / 0.01, the margin of lines 140-141 as a divisor
MarginDiv == 100

\* lines 140-143: the limits of one axis, in thousandths
Limits(s) ==
    LET margin == SeqMax(s) - SeqMin(s)
    IN  <<MarginDiv * SeqMin(s) - margin, MarginDiv * SeqMax(s) + margin>>

(***************************************************************************)
(* The input files of the model.                                           *)
(***************************************************************************)
LineMarker == <<" ", " ", "#", " ", "R", "u", "t", "a", " ", "v", "e", "h", "i", "c", "u", "l", "o", " ", "1", "\n">>
LineDepot == <<"0", ",", "0", ",", "0", "\n">>
LineCust == <<"5", ",", "5", ",", "1", "\n">>
LineTwo == <<"-", "3", ",", "7", ".", "5", "\n">>
LineExtra == <<"1", ",", "2", ",", "3", ",", "x", "\n">>
LineBadY == <<"4", ",", "x", ",", "7", "\n">>
LineBadId == <<"2", ",", "3", ",", "1", ".", "5", "\n">>
LineBlank == <<"\n">>
LineNoComma == <<"f", "i", "n", "\n">>

\* the lines the generated files are made of: a marker line, data lines of
\* 2, 3 and 4 fields, data lines whose conversion fails, and skipped lines
Lines == {LineMarker, LineDepot, LineTwo, LineExtra, LineBadY, LineBadId,
          LineBlank, LineNoComma}

ExMarker1 == <<"#", " ", "R", "u", "t", "a", " ", "v", "e", "h", "i", "c", "u", "l", "o", " ", "1", "\n">>
ExMarker2 == <<"#", " ", "R", "u", "t", "a", " ", "v", "e", "h", "i", "c", "u", "l", "o", " ", "2", "\n">>
ExCust2 == <<"3", ",", "1", ",", "2", "\n">>
ExLast == <<"0", ",", "0", ",", "0">>

\* the two-vehicle file of the end-to-end example
ExampleFile == <<ExMarker1, LineDepot, LineCust, LineDepot,
                 ExMarker2, LineDepot, ExCust2, ExLast>>

Files == UNION {[1..n -> Lines] : n \in 0..MaxLines} \cup {ExampleFile}

(***************************************************************************)
(* The program: main() calls load_routes_from_csv, then plot_routes, then  *)
(* saves and closes the figure.                                            *)
(***************************************************************************)
Idle ==
    /\ pos = 1
    /\ routes = <<>>
    /\ current_route = <<>>
    /\ result = <<>>
    /\ ret = 0
    /\ plt_obj = FALSE
    /\ num_routes = 0
    /\ colors = <<>>
    /\ i = 1
    /\ all_x = <<>>
    /\ all_y = <<>>
    /\ calls = <<>>
    /\ xlim = <<>>
    /\ ylim = <<>>

\* main is entered; load_routes_from_csv has run lines 11-12
Init ==
    /\ exists \in BOOLEAN
    /\ file \in Files
    /\ (~exists => file = <<>>)
    /\ pc = "open"
    /\ Idle

\* line 15: open() succeeds
OpenOk ==
    /\ pc = "open"
    /\ exists
    /\ pc' = "read"
    /\ UNCHANGED <<exists, file, pos, routes, current_route, result, ret, plt_obj,
                   num_routes, colors, i, all_x, all_y, calls, xlim, ylim>>

\* lines 15, 44-45: open() raises FileNotFoundError
OpenNotFound ==
    /\ pc = "open"
    /\ ~exists
    /\ result' = OnException(routes)
    /\ ret' = 45
    /\ pc' = "loaded"
    /\ UNCHANGED <<exists, file, pos, routes, current_route, plt_obj,
                   num_routes, colors, i, all_x, all_y, calls, xlim, ylim>>

\* lines 15, 46-47: open() raises another exception (permissions, a directory)
OpenError ==
    /\ pc = "open"
    /\ exists
    /\ result' = OnException(routes)
    /\ ret' = 47
    /\ pc' = "loaded"
    /\ UNCHANGED <<exists, file, pos, routes, current_route, plt_obj,
                   num_routes, colors, i, all_x, all_y, calls, xlim, ylim>>

\* lines 16-38: one iteration of the loop over the lines
ReadLine ==
    /\ pc = "read"
    /\ pos <= Len(file)
    /\ LET next == LoopBody(routes, current_route, file[pos])
       IN  /\ routes' = next.routes
           /\ current_route' = next.current
    /\ pos' = pos + 1
    /\ UNCHANGED <<exists, file, result, ret, pc, plt_obj,
                   num_routes, colors, i, all_x, all_y, calls, xlim, ylim>>

\* lines 16, 46-47: reading the next line raises (I/O error, undecodable bytes)
ReadError ==
    /\ pc = "read"
    /\ pos <= Len(file) + 1
    /\ result' = OnException(routes)
    /\ ret' = 47
    /\ pc' = "loaded"
    /\ UNCHANGED <<exists, file, pos, routes, current_route, plt_obj,
                   num_routes, colors, i, all_x, all_y, calls, xlim, ylim>>

\* lines 40-49: the stream ends, the last route is appended, routes is returned
EndOfFile ==
    /\ pc = "read"
    /\ pos = Len(file) + 1
    /\ routes' = IF current_route # <<>> THEN Append(routes, current_route) ELSE routes
    /\ result' = routes'
    /\ ret' = 49
    /\ pc' = "loaded"
    /\ UNCHANGED <<exists, file, pos, current_route, plt_obj,
                   num_routes, colors, i, all_x, all_y, calls, xlim, ylim>>

\* lines 160-169: main returns on an empty collection; print_route_summary
\* (lines 148-153) only computes locals
MainCheck ==
    /\ pc = "loaded"
    /\ pc' = IF result = <<>> THEN "exit" ELSE "plot"
    /\ UNCHANGED <<exists, file, pos, routes, current_route, result, ret, plt_obj,
                   num_routes, colors, i, all_x, all_y, calls, xlim, ylim>>

\* lines 81-91: plot_routes up to its loop
PlotBegin ==
    /\ pc = "plot"
    /\ IF result = <<>>
       THEN /\ plt_obj' = FALSE
            /\ pc' = "save"
            /\ UNCHANGED <<num_routes, colors, i, all_x, all_y, calls>>
       ELSE /\ calls' = Append(calls, Call("figure", 0, <<>>, <<>>))
            /\ num_routes' = Len(result)
            /\ \E rnd \in RandSeqs(Len(result)) :
                   colors' = generate_colors(Len(result), rnd)
            /\ all_x' = <<>>
            /\ all_y' = <<>>
            /\ i' = 1
            /\ pc' = "plot_loop"
            /\ UNCHANGED plt_obj
    /\ UNCHANGED <<exists, file, pos, routes, current_route, result, ret, xlim, ylim>>

\* lines 94-123: one iteration of the loop over the routes
PlotRoute ==
    /\ pc = "plot_loop"
    /\ i <= Len(result)
    /\ all_x' = all_x \o RouteCoords(result[i], 1)
    /\ all_y' = all_y \o RouteCoords(result[i], 2)
    /\ calls' = calls \o RouteCalls(i, result[i])
    /\ i' = i + 1
    /\ UNCHANGED <<exists, file, pos, routes, current_route, result, ret, pc, plt_obj,
                   num_routes, colors, xlim, ylim>>

\* lines 126-129 with the depot taken from the last route
PlotDepotLastRoute ==
    /\ pc = "plot_loop"
    /\ i > Len(result)
    /\ calls' = IF result # <<>> /\ Len(result[Len(result)]) > 0
                THEN Append(calls, Call("depot", 0, <<XY(result[Len(result)][1])>>, <<>>))
                ELSE calls
    /\ pc' = "plot_config"
    /\ UNCHANGED <<exists, file, pos, routes, current_route, result, ret, plt_obj,
                   num_routes, colors, i, all_x, all_y, xlim, ylim>>

\* lines 126-129: the diamond marker of the main depot
PlotDepot ==
    /\ pc = "plot_loop"
    /\ i > Len(result)
    /\ calls' = IF result # <<>> /\ Len(result[1]) > 0
                THEN Append(calls, Call("depot", 0, <<XY(result[1][1])>>, <<>>))
                ELSE calls
    /\ pc' = "plot_config"
    /\ UNCHANGED <<exists, file, pos, routes, current_route, result, ret, plt_obj,
                   num_routes, colors, i, all_x, all_y, xlim, ylim>>

\* lines 132-146 without the return of line 146
PlotConfigNoReturn ==
    /\ pc = "plot_config"
    /\ LET bounded == all_x # <<>> /\ all_y # <<>>
       IN  /\ xlim' = IF bounded THEN Limits(all_x) ELSE xlim
           /\ ylim' = IF bounded THEN Limits(all_y) ELSE ylim
           /\ calls' = calls
                \o <<Call("xlabel", 0, <<>>, <<>>), Call("ylabel", 0, <<>>, <<>>),
                     Call("title", 0, <<>>, <<>>), Call("grid", 0, <<>>, <<>>),
                     Call("legend", 0, <<>>, <<>>)>>
                \o (IF bounded
                    THEN <<Call("xlim", 0, <<>>, <<>>), Call("ylim", 0, <<>>, <<>>)>>
                    ELSE <<>>)
                \o <<Call("tight_layout", 0, <<>>, <<>>)>>
    /\ plt_obj' = FALSE
    /\ pc' = "save"
    /\ UNCHANGED <<exists, file, pos, routes, current_route, result, ret,
                   num_routes, colors, i, all_x, all_y>>

\* lines 132-146: labels, title, grid, legend, axis limits, layout; returns plt
PlotConfig ==
    /\ pc = "plot_config"
    /\ LET bounded == all_x # <<>> /\ all_y # <<>>
       IN  /\ xlim' = IF bounded THEN Limits(all_x) ELSE xlim
           /\ ylim' = IF bounded THEN Limits(all_y) ELSE ylim
           /\ calls' = calls
                \o <<Call("xlabel", 0, <<>>, <<>>), Call("ylabel", 0, <<>>, <<>>),
                     Call("title", 0, <<>>, <<>>), Call("grid", 0, <<>>, <<>>),
                     Call("legend", 0, <<>>, <<>>)>>
                \o (IF bounded
                    THEN <<Call("xlim", 0, <<>>, <<>>), Call("ylim", 0, <<>>, <<>>)>>
                    ELSE <<>>)
                \o <<Call("tight_layout", 0, <<>>, <<>>)>>
    /\ plt_obj' = TRUE
    /\ pc' = "save"
    /\ UNCHANGED <<exists, file, pos, routes, current_route, result, ret,
                   num_routes, colors, i, all_x, all_y>>

\* lines 171-173: the figure is saved when plot_routes returned plt
MainSave ==
    /\ pc = "save"
    /\ IF plt_obj
       THEN /\ calls' = Append(calls, Call("savefig", 0, <<>>, <<>>))
            /\ pc' = "close"
       ELSE /\ pc' = "exit"
            /\ UNCHANGED calls
    /\ UNCHANGED <<exists, file, pos, routes, current_route, result, ret, plt_obj,
                   num_routes, colors, i, all_x, all_y, xlim, ylim>>

\* line 174: the figure is closed
MainClose ==
    /\ pc = "close"
    /\ calls' = Append(calls, Call("close", 0, <<>>, <<>>))
    /\ pc' = "exit"
    /\ UNCHANGED <<exists, file, pos, routes, current_route, result, ret, plt_obj,
                   num_routes, colors, i, all_x, all_y, xlim, ylim>>

Next ==
    \/ OpenOk
    \/ OpenNotFound
    \/ OpenError
    \/ ReadLine
    \/ ReadError
    \/ EndOfFile
    \/ MainCheck
    \/ PlotBegin
    \/ PlotRoute
    \/ PlotDepot
    \/ PlotConfig
    \/ MainSave
    \/ MainClose

Spec == Init /\ [][Next]_vars

(***************************************************************************)
(* generate_colors on its own, for every argument up to MaxColors.         *)
(***************************************************************************)
InitColors ==
    /\ exists = FALSE
    /\ file = <<>>
    /\ pc = "colors_call"
    /\ pos = 1
    /\ routes = <<>>
    /\ current_route = <<>>
    /\ result = <<>>
    /\ ret = 0
    /\ plt_obj = FALSE
    /\ num_routes \in 0..MaxColors
    /\ colors = <<>>
    /\ i = 1
    /\ all_x = <<>>
    /\ all_y = <<>>
    /\ calls = <<>>
    /\ xlim = <<>>
    /\ ylim = <<>>

\* lines 51-75: one call of generate_colors(num_routes)
GenerateColors ==
    /\ pc = "colors_call"
    /\ \E rnd \in RandSeqs(num_routes) : colors' = generate_colors(num_routes, rnd)
    /\ pc' = "colors_returned"
    /\ UNCHANGED <<exists, file, pos, routes, current_route, result, ret, plt_obj,
                   num_routes, i, all_x, all_y, calls, xlim, ylim>>

NextColors == GenerateColors

SpecColors == InitColors /\ [][NextColors]_vars

(***************************************************************************)
(* Vocabulary of the properties of the loader.                             *)
(***************************************************************************)
\* a route-start marker line
IsMarkerLine(l) == StartsWith(Strip(l), MARKER)

\* a data line: not a marker line, and holding a comma
IsDataLine(l) == ~IsMarkerLine(l) /\ Contains(l, ",")

\* the comma-separated fields of a line
Fields(l) == Split(Strip(l), ",")

\* the fields of a data line the loader converts: the first three, or both
ReadFields(l) == SubSeq(Fields(l), 1, Min(3, Len(Fields(l))))

\* a data line the loader accepts: every field it converts is a number, and
\* the third one, if any, an integer
IsAccepted(l) ==
    /\ IsDataLine(l)
    /\ \A k \in DOMAIN ReadFields(l) : IsFloat(ReadFields(l)[k])
    /\ Len(Fields(l)) >= 3 => IsInt(Fields(l)[3])

MarkerIdx(ls) == {k \in DOMAIN ls : IsMarkerLine(ls[k])}

\* some accepted data line lies in ls[a..b]
HasAccepted(ls, a, b) == \E k \in a..b : k \in DOMAIN ls /\ IsAccepted(ls[k])

\* the end of the segment that starts after position m: the line before the
\* next marker line, or the last line
SegmentEnd(ls, m) ==
    LET later == {k \in (m + 1)..Len(ls) : IsMarkerLine(ls[k])}
    IN  IF later = {} THEN Len(ls) ELSE (CHOOSE k \in later : \A j \in later : k <= j) - 1

\* the marker lines whose route does not stay empty
MarkersWithRoute(ls) == {m \in MarkerIdx(ls) : HasAccepted(ls, m + 1, SegmentEnd(ls, m))}

\* an accepted data line comes before the first marker line
HasLeadingRoute(ls) == HasAccepted(ls, 1, SegmentEnd(ls, 0))

\* the lines the loop has consumed
Consumed == SubSeq(file, 1, pos - 1)

\* the waypoints of the accepted data lines of ls[a..b], in order
RECURSIVE Waypoints(_, _, _)
Waypoints(ls, a, b) ==
    IF a > b THEN <<>>
    ELSE (IF IsDataLine(ls[a]) THEN ParseRecord(Fields(ls[a])) ELSE <<>>)
           \o Waypoints(ls, a + 1, b)

\* the waypoints of ls cut where the marker lines are, empty pieces included
RECURSIVE Segments(_, _)
Segments(ls, m) ==
    LET e == SegmentEnd(ls, m)
    IN  <<Waypoints(ls, m + 1, e)>> \o (IF e = Len(ls) THEN <<>> ELSE Segments(ls, e + 1))

NonEmpty(s) == s # <<>>

RECURSIVE Flatten(_)
Flatten(ss) == IF ss = <<>> THEN <<>> ELSE Head(ss) \o Flatten(Tail(ss))

Returned == pc \notin {"open", "read", "colors_call", "colors_returned"}

(***************************************************************************)
(* C1 as stated: when the file was read to its end, the number of routes   *)
(* returned equals the number of marker lines whose route does not stay    *)
(* empty.                                                                  *)
(***************************************************************************)
C1_RoutesEqualMarkers ==
    (pc = "loaded" /\ ret = 49) => Len(result) = Cardinality(MarkersWithRoute(file))

(***************************************************************************)
(* C1 amended: when the file is read to its end, the number of routes      *)
(* returned equals the number of marker lines whose route does not stay    *)
(* empty, plus one when an accepted data line comes before the first       *)
(* marker line (or the file has no marker line).                           *)
(***************************************************************************)
C1_RouteCount ==
    (pc = "loaded" /\ ret = 49) =>
        Len(result) = Cardinality(MarkersWithRoute(file))
                        + (IF HasLeadingRoute(file) THEN 1 ELSE 0)

C1_Witness ==
    /\ pc = "loaded"
    /\ ret = 49
    /\ HasLeadingRoute(file)
    /\ MarkersWithRoute(file) # {}
    /\ MarkerIdx(file) \ MarkersWithRoute(file) # {}
    /\ Len(result) = 2

(***************************************************************************)
(* C2 as stated: an iteration on a data line with a non-numeric field      *)
(* among its comma-separated fields leaves routes and current_route        *)
(* unchanged.                                                              *)
(***************************************************************************)
C2_AnyBadFieldDiscards ==
    [][(/\ pc = "read"
        /\ pos' = pos + 1
        /\ IsDataLine(file[pos])
        /\ \E k \in DOMAIN Fields(file[pos]) : ~IsFloat(Fields(file[pos])[k]))
       => (routes' = routes /\ current_route' = current_route)]_vars

(***************************************************************************)
(* C2 amended: an iteration on a data line with a non-numeric field among  *)
(* the fields the loader converts (the first three fields, or both fields  *)
(* of a two-field line) adds no waypoint: it leaves routes and             *)
(* current_route unchanged and the loop goes on to the next line.          *)
(***************************************************************************)
C2_BadReadFieldDiscards ==
    [][(/\ pc = "read"
        /\ pos' = pos + 1
        /\ IsDataLine(file[pos])
        /\ \E k \in DOMAIN ReadFields(file[pos]) : ~IsFloat(ReadFields(file[pos])[k]))
       => (routes' = routes /\ current_route' = current_route /\ pc' = "read")]_vars

C2_Witness ==
    /\ pc = "read"
    /\ pos > 2
    /\ IsDataLine(file[pos - 1])
    /\ \E k \in DOMAIN ReadFields(file[pos - 1]) : ~IsFloat(ReadFields(file[pos - 1])[k])
    /\ IsAccepted(file[pos - 2])
    /\ current_route # <<>>

(***************************************************************************)
(* C3: whenever load_routes_from_csv is left through one of its exception  *)
(* handlers (file not found, or any failure while opening or reading, also *)
(* after routes were parsed), the caller receives the empty list.          *)
(***************************************************************************)
C3_FailureReturnsEmpty ==
    /\ (pc \in {"open", "read"}) <=> (ret = 0)
    /\ (Returned /\ ret \in {45, 47}) => result = <<>>
    /\ (Returned /\ ~exists) => (ret = 45 /\ result = <<>>)

C3_Witness ==
    /\ Returned
    /\ ret = 47
    /\ routes # <<>>
    /\ current_route # <<>>
    /\ result = <<>>

(***************************************************************************)
(* C6: an iteration on a data line of exactly 2 numeric fields appends     *)
(* exactly the waypoint (x, y, -1) to current_route; an iteration on an    *)
(* accepted data line of 3 fields or more appends (x, y, id) with id read  *)
(* from the third field, whatever follows it.                              *)
(***************************************************************************)
C6_TwoFieldsUnknownId ==
    [][(pc = "read" /\ pos' = pos + 1 /\ IsDataLine(file[pos])) =>
        LET f == Fields(file[pos])
        IN  /\ (Len(f) = 2 /\ IsFloat(f[1]) /\ IsFloat(f[2])) =>
                  /\ routes' = routes
                  /\ current_route' =
                        Append(current_route, <<FloatVal(f[1]), FloatVal(f[2]), -1>>)
            /\ (Len(f) >= 3 /\ IsAccepted(file[pos])) =>
                  /\ routes' = routes
                  /\ current_route' =
                        Append(current_route, <<FloatVal(f[1]), FloatVal(f[2]), IntVal(f[3])>>)
            /\ file[pos] = LineTwo =>
                  current_route' = Append(current_route, <<-30, 75, -1>>)
            /\ file[pos] = LineExtra =>
                  current_route' = Append(current_route, <<10, 20, 3>>)]_vars

C6_Witness ==
    /\ pc = "read"
    /\ pos = 3
    /\ file[1] = LineTwo
    /\ file[2] = LineExtra
    /\ current_route = << <<-30, 75, -1>>, <<10, 20, 3>> >>

(***************************************************************************)
(* C10: at every step of the loader loop every collected route is          *)
(* non-empty, the collected routes followed by the route in progress are   *)
(* the waypoints accepted so far, in file order, and the routes are cut    *)
(* exactly where marker lines occurred; the returned list is the non-empty *)
(* pieces of the whole file.                                               *)
(***************************************************************************)
C10_RoutesPartitionAccepted ==
    /\ \A k \in DOMAIN routes : routes[k] # <<>>
    /\ pc = "read" =>
          LET read == Consumed
              segs == Segments(read, 0)
          IN  /\ Flatten(routes) \o current_route = Waypoints(read, 1, Len(read))
              /\ current_route = segs[Len(segs)]
              /\ routes = SelectSeq(SubSeq(segs, 1, Len(segs) - 1), NonEmpty)
    /\ (pc = "loaded" /\ ret = 49) =>
          /\ result = SelectSeq(Segments(file, 0), NonEmpty)
          /\ Flatten(result) = Waypoints(file, 1, Len(file))

C10_Witness ==
    /\ pc = "read"
    /\ pos = 5
    /\ IsAccepted(file[1])
    /\ IsMarkerLine(file[2])
    /\ IsAccepted(file[3])
    /\ ~IsMarkerLine(file[4]) /\ ~IsAccepted(file[4])
    /\ Len(routes) = 1
    /\ Len(current_route) = 1

(***************************************************************************)
(* Vocabulary of the properties of the colours and of the renderer.        *)
(***************************************************************************)
UpperHexDigits == <<"A", "B", "C", "D", "E", "F">>

IsHexDigit(c) == c \in Range(HexDigits) \cup Range(UpperHexDigits)

HexDigitVal(c) ==
    IF c \in Range(HexDigits)
    THEN (CHOOSE k \in DOMAIN HexDigits : HexDigits[k] = c) - 1
    ELSE (CHOOSE k \in DOMAIN UpperHexDigits : UpperHexDigits[k] = c) + 9

RECURSIVE HexVal(_)
HexVal(s) ==
    IF s = <<>> THEN 0 ELSE 16 * HexVal(SubSeq(s, 1, Len(s) - 1)) + HexDigitVal(s[Len(s)])

\* a '#' followed by exactly 6 hexadecimal digits
IsHexColor(c) ==
    /\ Len(c) = 7
    /\ c[1] = "#"
    /\ \A k \in 2..7 : IsHexDigit(c[k])
    /\ HexVal(Tail(c)) \in 0..16777215

\* the positions of the calls of one kind in the log
CallIdx(op) == {k \in DOMAIN calls : calls[k].op = op}

\* the annotations that draw the text t
LabelIdx(t) == {k \in CallIdx("annotate") : calls[k].text = t}

\* the calls plot_routes makes for one route
RouteOps == {"plot", "annotate", "start"}

\* the calls plot_routes makes
PlotOps == RouteOps \cup {"figure", "depot", "xlabel", "ylabel", "title", "grid",
                          "legend", "xlim", "ylim", "tight_layout"}

\* plot_routes has returned to main
Plotted == pc \in {"save", "close", "exit"} /\ plt_obj

\* the waypoints of all the routes of the collection
AllPoints == UNION {Range(result[r]) : r \in DOMAIN result}

SetMin(S) == CHOOSE v \in S : \A w \in S : v <= w

SetMax(S) == CHOOSE v \in S : \A w \in S : v >= w

\* [lo - 0.01 * (hi - lo), hi + 0.01 * (hi - lo)] for lo, hi the extremes of
\* S, in thousandths
Expanded(S) ==
    <<100 * SetMin(S) - (SetMax(S) - SetMin(S)), 100 * SetMax(S) + (SetMax(S) - SetMin(S))>>

(***************************************************************************)
(* C4: generate_colors(N) returns exactly N colours; the first min(N, 24)  *)
(* are the first entries of the palette, in palette order; every later one *)
(* is a '#' followed by exactly 6 hexadecimal digits.                      *)
(***************************************************************************)
C4_ColorsPaletteThenHex ==
    pc = "colors_returned" =>
        /\ Len(colors) = num_routes
        /\ \A k \in 1..Min(num_routes, 24) : colors[k] = base_colors[k]
        /\ \A k \in 25..num_routes : IsHexColor(colors[k])

C4_Witness ==
    /\ pc = "colors_returned"
    /\ num_routes > 25
    /\ colors[24] = <<"#", "9", "9", "3", "2", "C", "C">>
    /\ colors[25] = <<"#", "0", "0", "0", "0", "f", "f">>
    /\ colors[26] = <<"#", "0", "a", "b", "c", "d", "e">>

(***************************************************************************)
(* C5 as stated: on the two-vehicle example the loader returns 2 routes of *)
(* 3 waypoints, each starting and ending at (0,0,0); plot_routes plots     *)
(* both routes, draws the label '1' once, the label '2' once, and no label *)
(* '0'.                                                                    *)
(***************************************************************************)
C5_ExampleNoZeroLabel ==
    (file = ExampleFile /\ ret = 49 /\ Returned) =>
        /\ Len(result) = 2
        /\ \A r \in DOMAIN result :
              Len(result[r]) = 3 /\ result[r][1] = <<0, 0, 0>> /\ result[r][3] = <<0, 0, 0>>
        /\ Plotted =>
              /\ \A r \in DOMAIN result : \E k \in CallIdx("plot") : calls[k].route = r
              /\ Cardinality(LabelIdx(<<"1">>)) = 1
              /\ Cardinality(LabelIdx(<<"2">>)) = 1
              /\ LabelIdx(<<"0">>) = {}

(***************************************************************************)
(* C5 amended: on the two-vehicle example the loader returns 2 routes of 3 *)
(* waypoints, each starting and ending at (0,0,0); plot_routes plots both  *)
(* routes, draws the label '1' once and the label '2' once, and draws the  *)
(* label '0' four times, once per depot waypoint (0 is an id, not the      *)
(* unknown-id sentinel).                                                   *)
(***************************************************************************)
C5_ExampleLabels ==
    (file = ExampleFile /\ ret = 49 /\ Returned) =>
        /\ result = << << <<0, 0, 0>>, <<50, 50, 1>>, <<0, 0, 0>> >>,
                       << <<0, 0, 0>>, <<30, 10, 2>>, <<0, 0, 0>> >> >>
        /\ Plotted =>
              /\ \A r \in DOMAIN result : \E k \in CallIdx("plot") : calls[k].route = r
              /\ Cardinality(LabelIdx(<<"1">>)) = 1
              /\ Cardinality(LabelIdx(<<"2">>)) = 1
              /\ Cardinality(LabelIdx(<<"0">>)) = 4
              /\ \A k \in LabelIdx(<<"0">>) : calls[k].pts = << <<0, 0>> >>

C5_Witness ==
    /\ file = ExampleFile
    /\ ret = 49
    /\ pc = "exit"
    /\ Cardinality(CallIdx("annotate")) = 6

(***************************************************************************)
(* C7 as stated: after plot_routes the axis limits are the extremes of the *)
(* waypoints of all the routes, widened by 1% of the range on each side,   *)
(* and they are the default only when the collection holds no waypoint.    *)
(***************************************************************************)
C7_LimitsCoverAllRoutes ==
    Plotted =>
        IF AllPoints = {}
        THEN xlim = <<>> /\ ylim = <<>>
        ELSE /\ xlim = Expanded({p[1] : p \in AllPoints})
             /\ ylim = Expanded({p[2] : p \in AllPoints})

(***************************************************************************)
(* C8: the figure is saved if and only if the loader returned a non-empty  *)
(* collection; it is saved once, after every call of plot_routes, and      *)
(* closed after the save; on an empty collection main makes no call.       *)
(***************************************************************************)
C8_SavedIffRoutes ==
    /\ pc = "exit" => ((CallIdx("savefig") # {}) <=> (result # <<>>))
    /\ Cardinality(CallIdx("savefig")) <= 1
    /\ \A s \in CallIdx("savefig") :
          /\ CallIdx("figure") # {}
          /\ \A k \in DOMAIN calls : calls[k].op \in PlotOps => k < s
          /\ \A k \in DOMAIN calls : k > s => calls[k].op = "close"
    /\ \A c \in CallIdx("close") : \E s \in CallIdx("savefig") : s < c
    /\ (pc = "exit" /\ result # <<>>) =>
          /\ Cardinality(CallIdx("close")) = 1
          /\ calls[Len(calls)].op = "close"
    /\ result = <<>> => calls = <<>>

C8_Witness ==
    /\ pc = "exit"
    /\ result # <<>>
    /\ Len(calls) > 2
    /\ calls[Len(calls) - 1].op = "savefig"
    /\ calls[Len(calls)].op = "close"
    /\ CallIdx("plot") # {}

\* the depot marker is the only one, follows every call made for a route and
\* lies on the first waypoint of the first route
DepotOnceAfterRoutes(d) ==
    /\ CallIdx("depot") = {d}
    /\ \A k \in DOMAIN calls : calls[k].op \in RouteOps => k < d
    /\ calls[d].pts = <<XY(result[1][1])>>

\* the polyline and the square marker of the first route drew the first
\* waypoint of the first route before call d
DrawnBefore(d) ==
    /\ \E k \in CallIdx("plot") :
          k < d /\ calls[k].route = 1 /\ calls[k].pts[1] = XY(result[1][1])
    /\ \E k \in CallIdx("start") :
          k < d /\ calls[k].route = 1 /\ calls[k].pts = <<XY(result[1][1])>>

(***************************************************************************)
(* C9 as stated: after plot_routes on a non-empty collection the depot     *)
(* marker was drawn once, after the drawing of all routes, on the first    *)
(* waypoint of the first route, and the polyline and the start marker of   *)
(* the first route had drawn that waypoint before.                         *)
(***************************************************************************)
C9_DepotAlwaysSecondDrawing ==
    (Plotted /\ result # <<>>) =>
        \E d \in DOMAIN calls : DepotOnceAfterRoutes(d) /\ DrawnBefore(d)

(***************************************************************************)
(* C9 amended: after plot_routes on a non-empty collection of non-empty    *)
(* routes (what the loader returns) the depot marker was drawn once, after *)
(* the drawing of all routes, on the first waypoint of the first route; it *)
(* is a second drawing of that waypoint by the first route exactly when    *)
(* the first route has 2 waypoints or more, a shorter first route being    *)
(* skipped by the per-route drawing.                                       *)
(***************************************************************************)
C9_DepotOnceAfterRoutes ==
    (Plotted /\ result # <<>>) =>
        \E d \in DOMAIN calls :
            /\ DepotOnceAfterRoutes(d)
            /\ DrawnBefore(d) <=> Len(result[1]) >= 2

C9_Witness ==
    /\ Plotted
    /\ Len(result) = 2
    /\ Len(result[1]) = 2
    /\ Len(result[2]) >= 1
    /\ result[2][1] # result[1][1]
    /\ \E d \in DOMAIN calls : DepotOnceAfterRoutes(d) /\ DrawnBefore(d)

====
